---- MODULE Spec2Model ----
(***************************************************************************)
(* State-machine model of nordvpn_switcher_pro's platform controllers:     *)
(*   src/nordvpn_switcher_pro/linux_controller.py   (LinuxVpnController)   *)
(*   src/nordvpn_switcher_pro/windows_controller.py (WindowsVpnController) *)
(*                                                                         *)
(* One controller call runs at a time (the code is synchronous).  Text is  *)
(* modelled as a sequence of one-character strings, so parsing, trimming   *)
(* and lower-casing are computed character by character as str does.       *)
(* Time is counted in ticks of the polling interval.                       *)
(***************************************************************************)
EXTENDS Integers, Sequences, FiniteSets, TLC

VARIABLES
    platform,          \* "linux" | "windows": which controller class is in use
    pc,                \* position of the running call
    op,                \* the public method being executed
    force,             \* close(force=...) argument of the running call
    log,               \* external invocations made by the running call, in order
    now,               \* time.time() relative to the start of the current wait
    endTime,           \* end_time of _wait_for_status
    outcome,           \* how the last call ended: return value or raised error
    cliReady,          \* windows_controller._CLI_IS_READY (module global)
    samples,           \* samples list of _wait_for_cli_ready
    gateWork,          \* GUI launches + memory samples made by the running call
    passedSinceReset,  \* history: the gate succeeded and no close() found a process since
    procs,             \* psutil.process_iter() snapshot walked by close()
    idx,               \* index of the next process close() looks at
    found,             \* local `found` of close()
    closeLog,          \* history: what close() did to each matching process
    entered,           \* history: per sample of the window, whether it entered as an outlier
    serverLookup,      \* WindowsVpnController._server_ip_lookup
    lastServers,       \* history: argument of the most recent set_server_ip_lookup call
    query,             \* what the running read-only call was given by its environment
    result             \* return value of the running read-only call

vars == <<platform, pc, op, force, log, now, endTime, outcome, cliReady, samples,
          gateWork, passedSinceReset, procs, idx, found, closeLog, entered,
          serverLookup, lastServers, query, result>>

----------------------------------------------------------------------------
(* Bounds of the model *)

\* _wait_for_status(timeout=...) in ticks of the polling interval (45 s in the code)
WaitTimeout == 3
\* longest text given to the parser, in characters
MaxTextLen == 5
\* longest time one `nordvpn status` evaluation takes, in ticks (its timeout is 20 s)
MaxEvalTime == 1
\* _wait_for_cli_ready(timeout=...) in polling iterations (60 s / 0.5 s in the code)
GateTimeout == 3
\* stability_window of _wait_for_cli_ready (6 in the code)
StabilityWindow == 2
\* most processes a psutil.process_iter() enumeration yields
MaxProcs == 2

(* Program constants *)

\* _wait_for_status(interval=1.0): one tick
Interval == 1
\* _wait_for_cli_ready(threshold_mb=200)
ThresholdMb == 200
\* _wait_for_cli_ready(variance_pct=1.0)
VariancePct == 1

----------------------------------------------------------------------------
(* Text: str operations, character by character *)

UpperChars == <<"A","B","C","D","E","F","G","H","I","J","K","L","M",
                "N","O","P","Q","R","S","T","U","V","W","X","Y","Z">>
LowerChars == <<"a","b","c","d","e","f","g","h","i","j","k","l","m",
                "n","o","p","q","r","s","t","u","v","w","x","y","z">>
Whitespace == {" ", "\t", "\n", "\r"}

\* str.lower() of one character
LowerChar(c) ==
    IF \E i \in 1..Len(UpperChars) : UpperChars[i] = c
    THEN LowerChars[CHOOSE i \in 1..Len(UpperChars) : UpperChars[i] = c]
    ELSE c

\* str.lower()
Lower(s) == [i \in 1..Len(s) |-> LowerChar(s[i])]

\* str.strip()
RECURSIVE LStrip(_)
LStrip(s) == IF s # <<>> /\ Head(s) \in Whitespace THEN LStrip(Tail(s)) ELSE s
RECURSIVE RStrip(_)
RStrip(s) ==
    IF s # <<>> /\ s[Len(s)] \in Whitespace THEN RStrip(SubSeq(s, 1, Len(s) - 1)) ELSE s
Strip(s) == RStrip(LStrip(s))

\* `sub in s`
Contains(s, sub) ==
    \E i \in 1..(Len(s) - Len(sub) + 1) : SubSeq(s, i, i + Len(sub) - 1) = sub

\* position of the first occurrence of character c in s, 0 if there is none
FirstIndex(s, c) ==
    IF \E i \in 1..Len(s) : s[i] = c
    THEN CHOOSE i \in 1..Len(s) : s[i] = c /\ \A j \in 1..(i - 1) : s[j] # c
    ELSE 0

\* str.splitlines() for "\n"-separated text
RECURSIVE SplitLines(_)
SplitLines(s) ==
    IF s = <<>> THEN <<>>
    ELSE LET n == FirstIndex(s, "\n") IN
         IF n = 0 THEN <<s>>
         ELSE <<SubSeq(s, 1, n - 1)>> \o SplitLines(SubSeq(s, n + 1, Len(s)))

\* dict: parsed[key] = value
DictSet(d, k, v) == [x \in (DOMAIN d) \cup {k} |-> IF x = k THEN v ELSE d[x]]
\* dict.get(key, default)
DictGet(d, k, default) == IF k \in DOMAIN d THEN d[k] ELSE default
EmptyDict == [x \in {} |-> <<>>]

\* a plausible slip: the line is split at its last colon
ParseLineLastColon(parsed, line) ==
    LET n == IF \E i \in 1..Len(line) : line[i] = ":"
             THEN CHOOSE i \in 1..Len(line) :
                     line[i] = ":" /\ \A j \in (i + 1)..Len(line) : line[j] # ":"
             ELSE 0
    IN  IF n = 0 THEN parsed
        ELSE DictSet(parsed,
                     Lower(Strip(SubSeq(line, 1, n - 1))),
                     Strip(SubSeq(line, n + 1, Len(line))))

\* one iteration of the loop of _parse_status_output
ParseLine(parsed, line) ==
    LET n == FirstIndex(line, ":") IN
    IF n = 0 THEN parsed
    ELSE DictSet(parsed,
                 Lower(Strip(SubSeq(line, 1, n - 1))),
                 Strip(SubSeq(line, n + 1, Len(line))))

RECURSIVE ParseLines(_, _)
ParseLines(parsed, lines) ==
    IF lines = <<>> THEN parsed
    ELSE ParseLines(ParseLine(parsed, Head(lines)), Tail(lines))

\* LinuxVpnController._parse_status_output
ParseStatusOutput(output) == ParseLines(EmptyDict, SplitLines(output))

StrStatus == <<"s","t","a","t","u","s">>
StrUnknown == <<"U","n","k","n","o","w","n">>
StrConnected == <<"c","o","n","n","e","c","t","e","d">>
StrDisconnected == <<"d","i","s","c","o","n","n","e","c","t","e","d">>

\* a plausible slip: no default for an output without a status field
LinuxGetStatusNoDefault(output) == DictGet(ParseStatusOutput(output), StrStatus, <<>>)

\* LinuxVpnController.get_status, given the stdout of `nordvpn status`
LinuxGetStatus(output) == DictGet(ParseStatusOutput(output), StrStatus, StrUnknown)

\* a plausible slip: `"connected" in status` without excluding "disconnected"
IsConnectedSubstringOnly(status) ==
    LET s == Lower(Strip(status)) IN Contains(s, StrConnected)

\* LinuxVpnController._is_connected, given the value of get_status()
IsConnectedStatus(status) ==
    LET s == Lower(Strip(status)) IN
    s = StrConnected \/ (Contains(s, StrConnected) /\ ~Contains(s, StrDisconnected))

(* What `nordvpn status` can print: the text, and the state the daemon is   *)
(* reporting in it ("Missing": the text has no status field).              *)
StatusOutputs == <<
    [reports |-> "Connected",
     text |-> <<"S","t","a","t","u","s",":"," ","C","o","n","n","e","c","t","e","d","\n",
                "S","e","r","v","e","r",":"," ","d","e","1","2","3">>],
    [reports |-> "Disconnected",
     text |-> <<"S","t","a","t","u","s",":"," ","D","i","s","c","o","n","n","e","c","t","e","d">>],
    [reports |-> "Connecting",
     text |-> <<"S","t","a","t","u","s",":"," ","C","o","n","n","e","c","t","i","n","g">>],
    [reports |-> "Missing",
     text |-> <<"S","e","r","v","e","r",":"," ","d","e","1","2","3">>]
  >>

----------------------------------------------------------------------------
(* Command Runner *)

\* what can happen to one invocation of the CLI: the executable is not there
\* ("missing"), the process outlives the timeout, spawning fails in another way,
\* or the process exits with a code
ExitCodes == {0, 1, -9}
LinuxInvocations ==
    [kind : {"missing", "TimeoutExpired", "OSError"}, code : {0}]
    \cup [kind : {"exit"}, code : ExitCodes]
\* on Windows the command line is handed to the command shell (shell=True), which
\* may itself be missing
WinInvocations ==
    LinuxInvocations \cup [kind : {"shell missing"}, code : {0}]

Ok == [kind |-> "ok", why |-> "returned"]
Raised(kind, why) == [kind |-> kind, why |-> why]

\* a plausible slip: the return code is not checked
LinuxRunCommandUnchecked(inv) ==
    CASE inv.kind = "missing"           -> Raised("ConfigurationError", "not found")
      [] inv.kind = "TimeoutExpired"    -> Raised("NordVpnCliError", "command timed out")
      [] inv.kind = "OSError"           -> Raised("NordVpnCliError", "unexpected")
      [] OTHER                          -> Ok

\* LinuxVpnController._run_command: the outcome of the call for an invocation;
\* subprocess.run([exe, ...]) raises FileNotFoundError when the executable is missing
LinuxRunCommand(inv) ==
    CASE inv.kind = "missing"           -> Raised("ConfigurationError", "not found")
      [] inv.kind = "TimeoutExpired"    -> Raised("NordVpnCliError", "command timed out")
      [] inv.kind = "OSError"           -> Raised("NordVpnCliError", "unexpected")
      [] inv.kind = "exit" /\ inv.code # 0 -> Raised("NordVpnCliError", "command failed")
      [] OTHER                          -> Ok


\* WindowsVpnController._run_command after the readiness gate: the inner
\* try/except produces a value or an exception, and the outer handlers
\* (FileNotFoundError, then Exception) turn every exception into the error raised.
\* Popen(command, shell=True) starts the command shell with the command line:
\* it raises FileNotFoundError only when the shell cannot be found, and a missing
\* NordVPN.exe is the shell's non-zero exit status
WinRunCommand(inv) ==
    LET returncode == IF inv.kind = "missing" THEN 1 ELSE inv.code
        inner ==
            CASE inv.kind = "shell missing"  -> "FileNotFoundError"
              [] inv.kind = "OSError"        -> "OSError"
              [] inv.kind = "TimeoutExpired" -> "NordVpnCliError"
              [] returncode # 0              -> "NordVpnCliError"
              [] OTHER                       -> "return"
    IN  CASE inner = "return"            -> Ok
          [] inner = "FileNotFoundError" -> Raised("ConfigurationError", "not found")
          [] OTHER                       -> Raised("NordVpnCliError", "unexpected")

----------------------------------------------------------------------------
(* Readiness Poller: _wait_for_status *)

\* exceptions.py: the two error kinds are separate classes, so that
\* `except NordVpnCliError` catches a NordVpnCliError and not a ConfigurationError
CaughtAsCliError(kind) == kind = "NordVpnCliError"

\* a plausible slip: the status query's CLI error aborts the wait
PollVerdictNoSwallow(connected, r, o) ==
    CASE r.kind = "ok" ->
            IF IsConnectedStatus(LinuxGetStatus(StatusOutputs[o].text)) = connected
            THEN "return" ELSE "sleep"
      [] OTHER -> "raise"

\* a plausible slip: the loop catches every exception of the status query
PollVerdictSwallowAll(connected, r, o) ==
    CASE r.kind = "ok" ->
            IF IsConnectedStatus(LinuxGetStatus(StatusOutputs[o].text)) = connected
            THEN "return" ELSE "sleep"
      [] OTHER -> "sleep"

\* the body of the while loop of _wait_for_status for one status query whose
\* _run_command outcome is r and whose stdout is StatusOutputs[o]
PollVerdict(connected, r, o) ==
    CASE r.kind = "ok" ->
            IF IsConnectedStatus(LinuxGetStatus(StatusOutputs[o].text)) = connected
            THEN "return" ELSE "sleep"
      [] CaughtAsCliError(r.kind) -> "sleep"
      [] OTHER -> "raise"

\* a plausible slip: `<=` for `<` in the loop condition
WaitOpenInclusive(t, end) == t <= end

\* the loop condition of _wait_for_status: time.time() < end_time
WaitOpen(t, end) == t < end

----------------------------------------------------------------------------
(* The state machine *)

NoOutcome == [kind |-> "none", why |-> "none"]
NoQuery == [kind |-> "none"]
NoResult == [kind |-> "none"]
\* set_server_ip_lookup has not been called on this controller
NeverSet == <<"never">>
NoInvocation == [kind |-> "none", code |-> 0]
Event(ev, inv, res, out, dur) ==
    [ev |-> ev, inv |-> inv, res |-> res, out |-> out, dur |-> dur]

Init ==
    /\ platform \in {"linux", "windows"}
    /\ pc = "idle"
    /\ op = "none"
    /\ force = FALSE
    /\ log = <<>>
    /\ now = 0
    /\ endTime = 0
    /\ outcome = NoOutcome
    /\ cliReady = FALSE
    /\ samples = <<>>
    /\ gateWork = 0
    /\ passedSinceReset = FALSE
    /\ procs = <<>>
    /\ idx = 1
    /\ found = FALSE
    /\ closeLog = <<>>
    /\ entered = <<>>
    /\ serverLookup = EmptyDict
    /\ lastServers = NeverSet
    /\ query = NoQuery
    /\ result = NoResult

\* the caller starts a call; the controller is synchronous, so none is running
StartCall(name, f) ==
    /\ pc = "idle"
    /\ op' = name
    /\ force' = f
    /\ UNCHANGED <<platform, log, now, endTime, outcome, cliReady, samples, entered,
                   gateWork, passedSinceReset, idx, found, closeLog,
                   serverLookup, lastServers, query, result>>

\* the call is over: its result or exception has reached the caller and its
\* locals are gone; what stays is the controller and the module global
Return ==
    /\ pc = "done"
    /\ pc' = "idle"
    /\ op' = "none"
    /\ force' = FALSE
    /\ log' = <<>>
    /\ now' = 0
    /\ endTime' = 0
    /\ outcome' = NoOutcome
    /\ samples' = <<>>
    /\ gateWork' = 0
    /\ procs' = <<>>
    /\ idx' = 1
    /\ found' = FALSE
    /\ closeLog' = <<>>
    /\ entered' = <<>>
    /\ query' = NoQuery
    /\ result' = NoResult
    /\ UNCHANGED <<platform, cliReady, passedSinceReset, serverLookup, lastServers>>

\* connect(target, is_group) is called
Connect ==
    /\ StartCall("connect", FALSE)
    /\ pc' = "run"
    /\ UNCHANGED procs

\* disconnect() is called
Disconnect ==
    /\ StartCall("disconnect", FALSE)
    /\ pc' = "run"
    /\ UNCHANGED procs

\* LinuxVpnController.connect / disconnect: self._run_command([...]) and, when it
\* returned, the start of _wait_for_status (end_time = time.time() + timeout)
LinuxCommand ==
    /\ platform = "linux"
    /\ pc = "run"
    /\ \E inv \in LinuxInvocations :
         LET r == LinuxRunCommand(inv) IN
         /\ log' = Append(log, Event(op, inv, r.kind, 0, 0))
         /\ IF r.kind = "ok"
            THEN /\ pc' = "wait"
                 /\ now' = 0
                 /\ endTime' = WaitTimeout
                 /\ outcome' = outcome
            ELSE /\ pc' = "done"
                 /\ outcome' = r
                 /\ UNCHANGED <<now, endTime>>
    /\ UNCHANGED <<platform, op, force, cliReady, samples, entered,
                   gateWork, passedSinceReset, procs, idx, found, closeLog,
                   serverLookup, lastServers, query, result>>

\* one iteration of the while loop of _wait_for_status: the status query
\* (_is_connected -> get_status -> _run_command(["status"])), taking dur ticks,
\* then return, raise, or time.sleep(interval)
LinuxWaitPoll ==
    /\ platform = "linux"
    /\ pc = "wait"
    /\ WaitOpen(now, endTime)
    /\ \E inv \in LinuxInvocations, o \in 0..Len(StatusOutputs), dur \in 0..MaxEvalTime :
         LET r == LinuxRunCommand(inv)
             v == PollVerdict(op = "connect", r, o)
         IN
         /\ (r.kind = "ok") <=> (o # 0)
         /\ log' = Append(log, Event("status", inv, r.kind, o, dur))
         /\ CASE v = "return" ->
                    /\ pc' = "done"
                    /\ outcome' = Ok
                    /\ now' = now + dur
              [] v = "raise" ->
                    /\ pc' = "done"
                    /\ outcome' = r
                    /\ now' = now + dur
              [] OTHER ->
                    /\ pc' = "wait"
                    /\ outcome' = outcome
                    /\ now' = now + dur + Interval
    /\ UNCHANGED <<platform, op, force, endTime, cliReady, samples, entered,
                   gateWork, passedSinceReset, procs, idx, found, closeLog,
                   serverLookup, lastServers, query, result>>

\* the while loop of _wait_for_status ends: raise NordVpnCliError("did not become ...")
LinuxWaitTimeout ==
    /\ platform = "linux"
    /\ pc = "wait"
    /\ ~WaitOpen(now, endTime)
    /\ pc' = "done"
    /\ outcome' = Raised("NordVpnCliError", "wait timed out")
    /\ UNCHANGED <<platform, op, force, log, now, endTime, cliReady, samples, entered,
                   gateWork, passedSinceReset, procs, idx, found, closeLog,
                   serverLookup, lastServers, query, result>>


----------------------------------------------------------------------------
(* Windows readiness gate: _wait_for_cli_ready *)

StrNordVpnExe == <<"N","o","r","d","V","P","N",".","e","x","e">>
StrNordVpnExeLower == <<"n","o","r","d","v","p","n",".","e","x","e">>
StrNordVpnCaps == <<"N","o","r","d","V","P","N">>
StrNordVpn == <<"n","o","r","d","v","p","n">>
StrNordVpnd == <<"n","o","r","d","v","p","n","d">>

\* resident memory, in MB, a sampled process can show: at the threshold, just
\* above it, and above it by more than the allowed variance
MemValues == {200, 201, 210}
\* what psutil.process_iter(["name", "memory_info"]) can yield for one process:
\* the client, or a process of another name
GuiProcs ==
    [name : {StrNordVpnExe}, mem : MemValues] \cup [name : {StrNordVpnExeLower}, mem : {201}]

\* sequences over S of length at most n
RECURSIVE SeqsUpTo(_, _)
SeqsUpTo(S, n) ==
    IF n = 0 THEN {<<>>}
    ELSE LET shorter == SeqsUpTo(S, n - 1) IN
         shorter \cup {Append(q, x) : q \in {t \in shorter : Len(t) = n - 1}, x \in S}

Last(q) == q[Len(q)]
RECURSIVE SumSeq(_)
SumSeq(q) == IF q = <<>> THEN 0 ELSE Head(q) + SumSeq(Tail(q))
Abs(x) == IF x < 0 THEN -x ELSE x

\* (max(abs(s - avg) for s in samples) / avg) * 100 <= variance_pct with
\* avg = sum(samples) / window, multiplied out by window * avg to stay in integers
WithinVariance(win, window, pct) ==
    LET total == SumSeq(win) IN
    \A i \in 1..Len(win) : Abs(win[i] * window - total) * 100 <= pct * total

\* samples.append(mem_mb); if len(samples) > stability_window: samples.pop(0)
PushSample(win, mem, window) ==
    LET appended == Append(win, mem) IN
    IF Len(appended) > window THEN Tail(appended) ELSE appended

\* a plausible slip: the memory threshold is not looked at
IsStableNoThreshold(win, mem, threshold, window, pct) ==
    /\ Len(win) = window
    /\ WithinVariance(win, window, pct)

\* the test that declares the client stable, on the window after the push
IsStable(win, mem, threshold, window, pct) ==
    /\ mem > threshold
    /\ Len(win) = window
    /\ WithinVariance(win, window, pct)

\* the for loop over psutil.process_iter() of one polling iteration: it returns
\* the window, whether the function returned ready, and the samples taken
RECURSIVE GateScan(_, _, _)
GateScan(win, listing, taken) ==
    IF listing = <<>> THEN [samples |-> win, ready |-> FALSE, taken |-> taken]
    ELSE LET p == Head(listing) IN
         IF p.name # StrNordVpnExe THEN GateScan(win, Tail(listing), taken)
         ELSE LET pushed == PushSample(win, p.mem, StabilityWindow) IN
              IF IsStable(pushed, p.mem, ThresholdMb, StabilityWindow, VariancePct)
              THEN [samples |-> pushed, ready |-> TRUE, taken |-> taken + 1]
              ELSE GateScan(pushed, Tail(listing), taken + 1)

\* history: the sample just pushed fills the window and deviates from the mean
\* of that window by more than the allowed percentage
EntersAsOutlier(pushed) ==
    /\ Len(pushed) = StabilityWindow
    /\ Abs(Last(pushed) * StabilityWindow - SumSeq(pushed)) * 100
         > VariancePct * SumSeq(pushed)

\* history: GateScan's pushes, replayed on the outlier marks of the window
RECURSIVE OutlierScan(_, _, _)
OutlierScan(win, marks, listing) ==
    IF listing = <<>> THEN marks
    ELSE LET p == Head(listing) IN
         IF p.name # StrNordVpnExe THEN OutlierScan(win, marks, Tail(listing))
         ELSE LET pushed == PushSample(win, p.mem, StabilityWindow)
                  marked == PushSample(marks, EntersAsOutlier(pushed), StabilityWindow)
              IN  IF IsStable(pushed, p.mem, ThresholdMb, StabilityWindow, VariancePct)
                  THEN marked
                  ELSE OutlierScan(pushed, marked, Tail(listing))

\* a plausible slip: the gate is skipped whatever the flag says
GateSkippedAlways(ready) == TRUE

\* `if _CLI_IS_READY: return` at the top of _wait_for_cli_ready
GateSkipped(ready) == ready

\* a plausible slip: the flag is not set when the client is found stable
FlagAfterStableUnset(ready) == ready

\* `_CLI_IS_READY = True` when the client is found stable
FlagAfterStable(ready) == TRUE

\* WindowsVpnController._run_command is entered: _wait_for_cli_ready returns at
\* once when the flag is set, and otherwise launches the GUI (a failed launch is
\* printed and ignored) and starts sampling
WinEnterRunCommand ==
    /\ platform = "windows"
    /\ pc = "run"
    /\ IF GateSkipped(cliReady)
       THEN /\ pc' = "popen"
            /\ UNCHANGED <<log, gateWork, samples, entered, now>>
       ELSE /\ \E launched \in BOOLEAN :
                 log' = Append(log, Event("launch", NoInvocation,
                                          IF launched THEN "ok" ELSE "printed", 0, 0))
            /\ gateWork' = gateWork + 1
            /\ samples' = <<>>
            /\ entered' = <<>>
            /\ now' = 0
            /\ pc' = "gate"
    /\ UNCHANGED <<platform, op, force, endTime, outcome, cliReady,
                   passedSinceReset, procs, idx, found, closeLog,
                   serverLookup, lastServers, query, result>>

\* one iteration of the while loop of _wait_for_cli_ready: the for loop over the
\* processes, then either `return` (stable) or time.sleep(0.5)
WinGatePoll ==
    /\ platform = "windows"
    /\ pc = "gate"
    /\ now < GateTimeout
    /\ \E listing \in SeqsUpTo(GuiProcs, MaxProcs) :
         LET g == GateScan(samples, listing, 0) IN
         /\ samples' = g.samples
         /\ entered' = OutlierScan(samples, entered, listing)
         /\ gateWork' = gateWork + g.taken
         /\ IF g.ready
            THEN /\ cliReady' = FlagAfterStable(cliReady)
                 /\ passedSinceReset' = TRUE
                 /\ pc' = "popen"
                 /\ now' = now
            ELSE /\ now' = now + 1
                 /\ UNCHANGED <<cliReady, passedSinceReset, pc>>
    /\ UNCHANGED <<platform, op, force, log, endTime, outcome, procs, idx, found, closeLog,
                   serverLookup, lastServers, query, result>>

\* the while loop of _wait_for_cli_ready ends: raise NordVpnCliError("did not
\* reach steady state"), which leaves _run_command before any command is spawned
WinGateTimeout ==
    /\ platform = "windows"
    /\ pc = "gate"
    /\ ~(now < GateTimeout)
    /\ pc' = "done"
    /\ outcome' = Raised("NordVpnCliError", "not ready")
    /\ UNCHANGED <<platform, op, force, log, now, endTime, cliReady, samples, entered,
                   gateWork, passedSinceReset, procs, idx, found, closeLog,
                   serverLookup, lastServers, query, result>>

\* the rest of WindowsVpnController._run_command: Popen, communicate, the return
\* code check; connect / disconnect end with what it returns or raises
WinCommand ==
    /\ platform = "windows"
    /\ pc = "popen"
    /\ \E inv \in WinInvocations :
         LET r == WinRunCommand(inv) IN
         /\ log' = Append(log, Event(op, inv, r.kind, 0, 0))
         /\ outcome' = r
    /\ pc' = "done"
    /\ UNCHANGED <<platform, op, force, now, endTime, cliReady, samples, entered,
                   gateWork, passedSinceReset, procs, idx, found, closeLog,
                   serverLookup, lastServers, query, result>>


----------------------------------------------------------------------------
(* Process Lifecycle Manager: close *)

\* process names an enumeration can show
ProcNames == {StrNordVpnd, StrNordVpnCaps, StrNordVpnExe, StrNordVpnExeLower}

\* the name filter of close(): `name.lower() in {"nordvpn", "nordvpnd"}` on Linux,
\* `proc.info["name"] == "NordVPN.exe"` on Windows
Matches(plat, name) ==
    IF plat = "linux" THEN Lower(name) \in {StrNordVpn, StrNordVpnd}
    ELSE name = StrNordVpnExe

\* how the calls made on one process can go
FirstResults == {"ok", "error"}                    \* proc.terminate() / proc.kill()
WaitResults == {"exited", "TimeoutExpired", "error"} \* proc.wait(timeout=5)
KillResults == {"ok", "error"}                     \* proc.kill() after the timeout

CloseEntry(name, f, first, wait, kill2, terminates, kills, report, escaped) ==
    [name |-> name, force |-> f, first |-> first, wait |-> wait, kill2 |-> kill2,
     terminates |-> terminates, kills |-> kills, report |-> report, escaped |-> escaped]

\* a plausible slip: the timeout handler forgets to kill
CloseOneNoEscalation(name, f, first, wait, kill2) ==
    LET t == IF f THEN 0 ELSE 1
        k == IF f THEN 1 ELSE 0
    IN  CASE first = "error" -> CloseEntry(name, f, first, "none", "none", t, k, "failed", FALSE)
          [] wait = "exited" -> CloseEntry(name, f, first, wait, "none", t, k, "closed", FALSE)
          [] wait = "error"  -> CloseEntry(name, f, first, wait, "none", t, k, "failed", FALSE)
          [] OTHER -> CloseEntry(name, f, first, wait, "none", t, k,
                                 IF f THEN "none" ELSE "forcing", FALSE)

\* a plausible slip: the timeout handler kills again without looking at `force`
CloseOneForceEscalates(name, f, first, wait, kill2) ==
    LET t == IF f THEN 0 ELSE 1
        k == IF f THEN 1 ELSE 0
    IN  CASE first = "error" -> CloseEntry(name, f, first, "none", "none", t, k, "failed", FALSE)
          [] wait = "exited" -> CloseEntry(name, f, first, wait, "none", t, k, "closed", FALSE)
          [] wait = "error"  -> CloseEntry(name, f, first, wait, "none", t, k, "failed", FALSE)
          [] OTHER -> CloseEntry(name, f, first, wait, kill2, t, k + 1, "forcing",
                                 kill2 = "error")

\* the try statement of close() for one matching process: what was called on it,
\* what was printed, and whether an exception escaped the try statement (one
\* raised inside the `except psutil.TimeoutExpired` handler is not caught by the
\* `except Exception` clause next to it)
CloseOne(name, f, first, wait, kill2) ==
    LET t == IF f THEN 0 ELSE 1
        k == IF f THEN 1 ELSE 0
    IN  CASE first = "error" -> CloseEntry(name, f, first, "none", "none", t, k, "failed", FALSE)
          [] wait = "exited" -> CloseEntry(name, f, first, wait, "none", t, k, "closed", FALSE)
          [] wait = "error"  -> CloseEntry(name, f, first, wait, "none", t, k, "failed", FALSE)
          [] f -> CloseEntry(name, f, first, wait, "none", t, k, "none", FALSE)
          [] OTHER -> CloseEntry(name, f, first, wait, kill2, t, k + 1, "forcing",
                                 kill2 = "error")

\* close(force) is called; the enumeration it will walk is fixed here
Close ==
    /\ \E f \in BOOLEAN : StartCall("close", f)
    /\ pc' = "close"
    /\ procs' \in SeqsUpTo(ProcNames, MaxProcs)

\* one iteration of the for loop of close(): skip a process of another name, or
\* close a matching one; on Windows `_CLI_IS_READY = False` follows the try
\* statement, so it is not reached when an exception escapes
CloseStep ==
    /\ pc = "close"
    /\ idx <= Len(procs)
    /\ IF ~Matches(platform, procs[idx])
       THEN /\ idx' = idx + 1
            /\ UNCHANGED <<pc, outcome, found, closeLog, cliReady, passedSinceReset>>
       ELSE \E first \in FirstResults, wait \in WaitResults, kill2 \in KillResults :
              LET e == CloseOne(procs[idx], force, first, wait, kill2) IN
              /\ found' = TRUE
              /\ closeLog' = Append(closeLog, e)
              /\ passedSinceReset' = FALSE
              /\ IF e.escaped
                 THEN /\ pc' = "done"
                      /\ outcome' = Raised("psutil.Error", "kill failed")
                      /\ UNCHANGED <<idx, cliReady>>
                 ELSE /\ idx' = idx + 1
                      /\ cliReady' = IF platform = "windows" THEN FALSE ELSE cliReady
                      /\ UNCHANGED <<pc, outcome>>
    /\ UNCHANGED <<platform, op, force, log, now, endTime, samples, entered,
                   gateWork, procs,
                   serverLookup, lastServers, query, result>>

\* the for loop of close() is over: print the no-op message if nothing matched,
\* and return
CloseEnd ==
    /\ pc = "close"
    /\ idx > Len(procs)
    /\ pc' = "done"
    /\ outcome' = IF found THEN Ok ELSE [kind |-> "ok", why |-> "no-op reported"]
    /\ UNCHANGED <<platform, op, force, log, now, endTime, cliReady, samples, entered,
                   gateWork, passedSinceReset, procs, idx, found, closeLog,
                   serverLookup, lastServers, query, result>>

----------------------------------------------------------------------------
(* DNS flush on Linux: flush_dns_cache *)

\* `attempts`: the first word of each candidate command, in the order of the list
FlushAttempts == <<"resolvectl", "systemd-resolve">>
\* how subprocess.run(command, check=True, timeout=20) can end
FlushRunResults == {"ok", "CalledProcessError", "TimeoutExpired", "OSError"}

\* a plausible slip: the `return` after a successful run is missing
FlushVerdictKeepGoing(available, run) == "continue"

\* one iteration of the for loop: `continue` for a candidate shutil.which does
\* not find, `return` after a run that succeeded, and the next candidate after a
\* run whose exception one of the except clauses recorded
FlushVerdict(available, run) ==
    IF ~available THEN "continue"
    ELSE IF run = "ok" THEN "return" ELSE "continue"

\* flush_dns_cache() is called on the Linux controller
FlushDnsCache ==
    /\ platform = "linux"
    /\ StartCall("flush_dns_cache", FALSE)
    /\ pc' = "flush"
    /\ UNCHANGED procs

\* one iteration of the for loop over `attempts`
FlushStep ==
    /\ pc = "flush"
    /\ idx <= Len(FlushAttempts)
    /\ \E available \in BOOLEAN, run \in FlushRunResults :
         /\ log' = Append(log, Event(FlushAttempts[idx], NoInvocation,
                                     IF available THEN run ELSE "not found", 0, 0))
         /\ IF FlushVerdict(available, run) = "return"
            THEN pc' = "done" /\ outcome' = Ok /\ idx' = idx
            ELSE idx' = idx + 1 /\ UNCHANGED <<pc, outcome>>
    /\ UNCHANGED <<platform, op, force, now, endTime, cliReady, samples, entered,
                   gateWork,
                   passedSinceReset, procs, found, closeLog,
                   serverLookup, lastServers, query, result>>

\* the for loop is over without a `return`: raise NordVpnCliError("DNS flush
\* failed: ...")
FlushFail ==
    /\ pc = "flush"
    /\ idx > Len(FlushAttempts)
    /\ pc' = "done"
    /\ outcome' = Raised("NordVpnCliError", "DNS flush failed")
    /\ UNCHANGED <<platform, op, force, log, now, endTime, cliReady, samples, entered,
                   gateWork, passedSinceReset, procs, idx, found, closeLog,
                   serverLookup, lastServers, query, result>>

----------------------------------------------------------------------------
(* Read-only queries of the Linux controller *)

\* None
Absent == <<"None">>
\* {"n/a", "none", "-"}
Placeholders == {<<"n","/","a">>, <<"n","o","n","e">>, <<"-">>}
NoValue == [kind |-> "absent"]
Value(v) == [kind |-> "value", value |-> v]

\* a plausible slip: the loop returns at the first key the output has
FirstUsablePresentOnly(parsed, keys) ==
    IF \E i \in 1..Len(keys) : DictGet(parsed, keys[i], Absent) # Absent
    THEN LET k == CHOOSE i \in 1..Len(keys) :
                     /\ DictGet(parsed, keys[i], Absent) # Absent
                     /\ \A j \in 1..(i - 1) : DictGet(parsed, keys[j], Absent) = Absent
             v == parsed[keys[k]]
         IN  IF v # <<>> /\ Lower(v) \notin Placeholders THEN v ELSE Absent
    ELSE Absent

\* the loop of get_current_ip / get_connected_server: `value = parsed.get(key)`,
\* `if value and value.lower() not in {"n/a", "none", "-"}: return value`, and
\* `return None` after the loop
RECURSIVE FirstUsable(_, _)
FirstUsable(parsed, keys) ==
    IF keys = <<>> THEN Absent
    ELSE LET v == DictGet(parsed, Head(keys), Absent) IN
         IF v # Absent /\ v # <<>> /\ Lower(v) \notin Placeholders THEN v
         ELSE FirstUsable(parsed, Tail(keys))

\* the key tuples of get_current_ip and get_connected_server
IpKeys == <<<<"y","o","u","r"," ","n","e","w"," ","i","p">>,
            <<"c","u","r","r","e","n","t"," ","i","p">>,
            <<"i","p">>>>
ServerKeys == <<<<"c","u","r","r","e","n","t"," ","s","e","r","v","e","r">>,
                <<"s","e","r","v","e","r">>>>

(* What `nordvpn status` can print for the fields the getters read: per field, *)
(* the name as printed, a placeholder and a real value it can carry. `id` is  *)
(* the field's place in the getter's priority order.                          *)
IpFields == <<
    [id |-> 1, shown |-> <<"Y","o","u","r"," ","n","e","w"," ","I","P">>,
     placeholder |-> <<"N","/","A">>, real |-> <<"1",".","1",".","1",".","1">>],
    [id |-> 2, shown |-> <<"C","u","r","r","e","n","t"," ","I","P">>,
     placeholder |-> <<"N","o","n","e">>, real |-> <<"2",".","2",".","2",".","2">>],
    [id |-> 3, shown |-> <<"I","P">>,
     placeholder |-> <<"-">>, real |-> <<"3",".","3",".","3",".","3">>] >>
ServerFields == <<
    [id |-> 1, shown |-> <<"C","u","r","r","e","n","t"," ","s","e","r","v","e","r">>,
     placeholder |-> <<"N","O","N","E">>, real |-> <<"d","e","1","2","3">>],
    [id |-> 2, shown |-> <<"S","e","r","v","e","r">>,
     placeholder |-> <<"n","/","a">>, real |-> <<"u","s","4","5">>] >>
\* what the daemon prints for one field: nothing, the placeholder, an empty
\* value, or the real value
FieldChoices == {"absent", "placeholder", "empty", "real"}

\* the text of the status output, fields in the reverse of the priority order
RECURSIVE RenderFields(_, _, _)
RenderFields(fields, choice, k) ==
    IF k = 0 THEN <<>>
    ELSE LET f == fields[k]
             line == CASE choice[k] = "absent" -> <<>>
                       [] choice[k] = "placeholder" -> f.shown \o <<":", " ">> \o f.placeholder \o <<"\n">>
                       [] choice[k] = "empty" -> f.shown \o <<":", " ", "\n">>
                       [] OTHER -> f.shown \o <<":", " ">> \o f.real \o <<"\n">>
         IN  line \o RenderFields(fields, choice, k - 1)

\* the common start of the Linux getters: _get_status_output() runs
\* `nordvpn status` and hands its stdout on, or _run_command raises
LinuxQueryStart(name) ==
    /\ platform = "linux"
    /\ pc = "idle"
    /\ op' = name
    /\ pc' = "done"
    /\ UNCHANGED <<platform, force, log, now, endTime, cliReady, samples, entered,
                   gateWork,
                   passedSinceReset, procs, idx, found, closeLog, serverLookup, lastServers>>

\* LinuxVpnController.get_status()
GetStatusLinux ==
    /\ LinuxQueryStart("get_status")
    /\ \E inv \in LinuxInvocations, i \in 1..Len(StatusOutputs) :
         LET r == LinuxRunCommand(inv) IN
         /\ query' = [kind |-> "status", inv |-> inv, out |-> IF r = Ok THEN i ELSE 0]
         /\ outcome' = r
         /\ result' = IF r = Ok THEN Value(LinuxGetStatus(StatusOutputs[i].text))
                       ELSE NoResult

\* get_current_ip() / get_connected_server() on a status output
LinuxGetter(name, fields, keys) ==
    /\ LinuxQueryStart(name)
    /\ \E inv \in LinuxInvocations, choice \in [1..Len(fields) -> FieldChoices] :
         LET r == LinuxRunCommand(inv)
             v == FirstUsable(ParseStatusOutput(RenderFields(fields, choice, Len(fields))),
                              keys)
         IN  /\ query' = [kind |-> "fields", inv |-> inv,
                          choice |-> IF r = Ok THEN choice
                                     ELSE [k \in 1..Len(fields) |-> "absent"]]
             /\ outcome' = r
             /\ result' = IF r # Ok THEN NoResult
                           ELSE IF v = Absent THEN NoValue ELSE Value(v)

\* LinuxVpnController.get_current_ip()
GetCurrentIpLinux == LinuxGetter("get_current_ip", IpFields, IpKeys)

\* LinuxVpnController.get_connected_server()
GetConnectedServerLinux == LinuxGetter("get_connected_server", ServerFields, ServerKeys)

\* characters of the texts given to the parser
ParseAlphabet == {"K", "v", ":", " ", "\n"}

\* LinuxVpnController._parse_status_output(output), a static method, on any text
ParseStatusCall ==
    /\ pc = "idle"
    /\ platform = "linux"
    /\ op' = "_parse_status_output"
    /\ pc' = "done"
    /\ \E t \in SeqsUpTo(ParseAlphabet, MaxTextLen) :
         /\ query' = [kind |-> "text", text |-> t]
         /\ result' = Value(ParseStatusOutput(t))
    /\ outcome' = Ok
    /\ UNCHANGED <<platform, force, log, now, endTime, cliReady, samples, entered,
                   gateWork,
                   passedSinceReset, procs, idx, found, closeLog, serverLookup, lastServers>>

----------------------------------------------------------------------------
(* Windows status by public IP: _normalize_ip, set_server_ip_lookup and the  *)
(* status snapshot                                                           *)

\* ipaddress.ip_address(text) followed by str(): the texts the library accepts
\* among those the model can hand it, each with the canonical text it prints;
\* any other text is a ValueError
IpAddressForms == {
    [text |-> <<"1","0",".","0",".","0",".","1">>, str |-> <<"1","0",".","0",".","0",".","1">>],
    [text |-> <<"1",".","2",".","3",".","4">>, str |-> <<"1",".","2",".","3",".","4">>],
    [text |-> <<"8",".","8",".","8",".","8">>, str |-> <<"8",".","8",".","8",".","8">>],
    [text |-> <<":",":","1">>, str |-> <<":",":","1">>],
    [text |-> <<"0",":","0",":","0",":","0",":","0",":","0",":","0",":","1">>, str |-> <<":",":","1">>],
    [text |-> <<"f","e","8","0",":",":","1">>, str |-> <<"f","e","8","0",":",":","1">>],
    [text |-> <<"F","E","8","0",":",":","1">>, str |-> <<"f","e","8","0",":",":","1">>] }
IpAddress(text) ==
    IF \E f \in IpAddressForms : f.text = text
    THEN (CHOOSE f \in IpAddressForms : f.text = text).str
    ELSE Absent

\* s.count(c)
CountChar(s, c) == Cardinality({i \in 1..Len(s) : s[i] = c})
\* s.split(c, 1)[0] when c is in s
BeforeFirst(s, c) == SubSeq(s, 1, FirstIndex(s, c) - 1)
\* s.rsplit(c, 1)[0] when c is in s
BeforeLast(s, c) ==
    SubSeq(s, 1, (CHOOSE i \in 1..Len(s) : s[i] = c /\ \A j \in (i + 1)..Len(s) : s[j] # c) - 1)

\* a plausible slip: the zone id is not cut off
NormalizeIpKeepsZone(value) ==
    IF value = Absent \/ value = <<>> THEN Absent
    ELSE LET c1 == Strip(value) IN
         IF c1 = <<>> \/ Lower(c1) \in Placeholders THEN Absent
         ELSE LET c2 == IF Head(c1) = "[" /\ FirstIndex(c1, "]") # 0
                        THEN SubSeq(c1, 2, FirstIndex(c1, "]") - 1) ELSE c1
                  c4 == IF FirstIndex(c2, "/") # 0 THEN BeforeFirst(c2, "/") ELSE c2
              IN  IF IpAddress(c4) # Absent THEN IpAddress(c4)
                  ELSE IF CountChar(c4, ":") = 1 /\ FirstIndex(c4, ".") # 0
                       THEN IpAddress(BeforeLast(c4, ":"))
                       ELSE Absent

\* WindowsVpnController._normalize_ip
NormalizeIp(value) ==
    IF value = Absent \/ value = <<>> THEN Absent
    ELSE LET c1 == Strip(value) IN
         IF c1 = <<>> \/ Lower(c1) \in Placeholders THEN Absent
         ELSE LET c2 == IF Head(c1) = "[" /\ FirstIndex(c1, "]") # 0
                        THEN SubSeq(c1, 2, FirstIndex(c1, "]") - 1) ELSE c1
                  c3 == IF FirstIndex(c2, "%") # 0 THEN BeforeFirst(c2, "%") ELSE c2
                  c4 == IF FirstIndex(c3, "/") # 0 THEN BeforeFirst(c3, "/") ELSE c3
              IN  IF IpAddress(c4) # Absent THEN IpAddress(c4)
                  ELSE IF CountChar(c4, ":") = 1 /\ FirstIndex(c4, ".") # 0
                       THEN IpAddress(BeforeLast(c4, ":"))
                       ELSE Absent

(* The servers a caller can pass to set_server_ip_lookup, each with the      *)
(* address its station stands for (`ip`, "none" when it stands for none).    *)
(* "None" is Python's None.                                                  *)
ServerChoices == <<
    [ip |-> "A", server |-> [id |-> 1, name |-> "Germany #123", hostname |-> "de123.nordvpn.com",
                             station |-> <<"1","0",".","0",".","0",".","1","/","2","4">>, status |-> "online", load |-> 10]],
    [ip |-> "B", server |-> [id |-> 2, name |-> "Loopback", hostname |-> "None",
                             station |-> <<"[",":",":","1","]">>, status |-> "online", load |-> 20]],
    [ip |-> "C", server |-> [id |-> 3, name |-> "None", hostname |-> "None",
                             station |-> <<"1",".","2",".","3",".","4",":","4","4","3">>, status |-> "online", load |-> 30]],
    [ip |-> "none", server |-> [id |-> 4, name |-> "Broken", hostname |-> "xx4.nordvpn.com",
                                station |-> <<"n","o","t","-","a","n","-","i","p">>, status |-> "offline", load |-> 40]],
    [ip |-> "A", server |-> [id |-> 5, name |-> "Germany #5", hostname |-> "de5.nordvpn.com",
                             station |-> <<" ","1","0",".","0",".","0",".","1"," ">>, status |-> "online", load |-> 50]],
    [ip |-> "D", server |-> [id |-> 6, name |-> "Link-local", hostname |-> "ll6.nordvpn.com",
                             station |-> <<"F","E","8","0",":",":","1","%","e","t","h","0">>, status |-> "online", load |-> 60]],
    [ip |-> "none", server |-> [id |-> 7, name |-> "No station", hostname |-> "ns7.nordvpn.com",
                                station |-> Absent, status |-> "online", load |-> 70]] >>
\* the `servers` arguments, as indexes into ServerChoices
ServerLists == {<<>>, <<1, 2, 7, 5>>, <<3, 4, 6>>}

\* the dict literal stored per server
ServerEntry(server) ==
    [id |-> server.id, name |-> server.name, hostname |-> server.hostname,
     station |-> server.station, status |-> server.status]

\* the for loop of set_server_ip_lookup
RECURSIVE BuildLookup(_, _)
BuildLookup(lookup, servers) ==
    IF servers = <<>> THEN lookup
    ELSE LET n == NormalizeIp(Head(servers).station) IN
         IF n = Absent THEN BuildLookup(lookup, Tail(servers))
         ELSE BuildLookup(DictSet(lookup, n, ServerEntry(Head(servers))), Tail(servers))

\* the start of a call on the Windows controller that runs no CLI command
WinQueryStart(name) ==
    /\ platform = "windows"
    /\ pc = "idle"
    /\ op' = name
    /\ pc' = "done"
    /\ UNCHANGED <<platform, force, log, now, endTime, cliReady, samples, entered,
                   gateWork,
                   passedSinceReset, procs, idx, found, closeLog>>

\* WindowsVpnController.set_server_ip_lookup(servers)
SetServerIpLookup ==
    /\ WinQueryStart("set_server_ip_lookup")
    /\ \E list \in ServerLists :
         /\ serverLookup' = BuildLookup(EmptyDict,
                                        [i \in 1..Len(list) |-> ServerChoices[list[i]].server])
         /\ lastServers' = list
    /\ query' = [kind |-> "servers", before |-> serverLookup]
    /\ result' = NoResult
    /\ outcome' = Ok

(* What the insights endpoint can answer: the request fails, or the payload  *)
(* carries this `ip` (Absent: no such field), standing for the address `ip`. *)
PublicIpAnswers == {
    [kind |-> "failed", payload |-> Absent, ip |-> "none"],
    [kind |-> "ok", payload |-> Absent, ip |-> "none"],
    [kind |-> "ok", payload |-> <<"1","0",".","0",".","0",".","1">>, ip |-> "A"],
    [kind |-> "ok", payload |-> <<"0",":","0",":","0",":","0",":","0",":","0",":","0",":","1">>, ip |-> "B"],
    [kind |-> "ok", payload |-> <<" ","1",".","2",".","3",".","4","\n">>, ip |-> "C"],
    [kind |-> "ok", payload |-> <<"8",".","8",".","8",".","8">>, ip |-> "E"] }

\* the last two lines of _get_public_ip
GetPublicIp(payload) ==
    IF payload = Absent \/ Strip(payload) = <<>> THEN Absent ELSE Strip(payload)

StatusConnected == <<"C","o","n","n","e","c","t","e","d">>
StatusDisconnected == <<"D","i","s","c","o","n","n","e","c","t","e","d">>
Truthy(x) == x \notin {"None", ""}

\* a plausible slip: the table is searched with the IP as the endpoint gave it
ResolveStatusSnapshotRawIp(lookup, currentIp) ==
    LET hit == currentIp # Absent /\ currentIp \in DOMAIN lookup
        keys == {"status"} \cup (IF currentIp # Absent THEN {"current ip"} ELSE {})
                  \cup (IF hit THEN {"current server"} ELSE {})
    IN  [k \in keys |->
           CASE k = "status" -> IF hit THEN StatusConnected ELSE StatusDisconnected
             [] k = "current ip" -> currentIp
             [] OTHER -> IF Truthy(lookup[currentIp].hostname)
                         THEN lookup[currentIp].hostname ELSE lookup[currentIp].name]

\* WindowsVpnController._resolve_status_snapshot, given the table and what
\* _get_public_ip returned
ResolveStatusSnapshot(lookup, currentIp) ==
    LET n == NormalizeIp(currentIp)
        hit == n # Absent /\ n \in DOMAIN lookup
        keys == {"status"} \cup (IF currentIp # Absent THEN {"current ip"} ELSE {})
                  \cup (IF hit THEN {"current server"} ELSE {})
                  \cup (IF hit /\ Truthy(lookup[n].name) THEN {"server name"} ELSE {})
                  \cup (IF hit /\ Truthy(lookup[n].hostname) THEN {"server hostname"} ELSE {})
    IN  [k \in keys |->
           CASE k = "status" -> IF hit THEN StatusConnected ELSE StatusDisconnected
             [] k = "current ip" -> currentIp
             [] k = "current server" -> IF Truthy(lookup[n].hostname)
                                        THEN lookup[n].hostname ELSE lookup[n].name
             [] k = "server name" -> lookup[n].name
             [] OTHER -> lookup[n].hostname]

\* what each query returns from the snapshot
WinQueryResult(name, snapshot) ==
    CASE name = "get_status" -> Value(snapshot["status"])
      [] name = "get_status_full" -> Value(snapshot)
      [] OTHER -> IF "current server" \in DOMAIN snapshot /\ snapshot["current server"] # "None"
                  THEN Value(snapshot["current server"]) ELSE NoValue

\* a query of the Windows controller: _get_public_ip, then the snapshot
WinQuery(name) ==
    /\ WinQueryStart(name)
    /\ \E answer \in PublicIpAnswers :
         /\ query' = [kind |-> "public ip", answer |-> answer]
         /\ IF answer.kind = "failed"
            THEN /\ outcome' = Raised("NordVpnCliError", "public IP lookup failed")
                 /\ result' = NoResult
            ELSE /\ outcome' = Ok
                 /\ result' = WinQueryResult(name,
                        ResolveStatusSnapshot(serverLookup, GetPublicIp(answer.payload)))
    /\ UNCHANGED <<serverLookup, lastServers>>

\* WindowsVpnController.get_status()
GetStatusWindows == WinQuery("get_status")
\* WindowsVpnController.get_status_full()
GetStatusFullWindows == WinQuery("get_status_full")
\* WindowsVpnController.get_connected_server()
GetConnectedServerWindows == WinQuery("get_connected_server")

----------------------------------------------------------------------------

Next ==
    \/ Connect
    \/ Disconnect
    \/ LinuxCommand
    \/ LinuxWaitPoll
    \/ LinuxWaitTimeout
    \/ WinEnterRunCommand
    \/ WinGatePoll
    \/ WinGateTimeout
    \/ WinCommand
    \/ Close
    \/ CloseStep
    \/ CloseEnd
    \/ FlushDnsCache
    \/ FlushStep
    \/ FlushFail
    \/ GetStatusLinux
    \/ GetCurrentIpLinux
    \/ GetConnectedServerLinux
    \/ ParseStatusCall
    \/ SetServerIpLookup
    \/ GetStatusWindows
    \/ GetStatusFullWindows
    \/ GetConnectedServerWindows
    \/ Return

Spec == Init /\ [][Next]_vars


----------------------------------------------------------------------------
(* Vocabulary of the properties *)

Exit0 == [kind |-> "exit", code |-> 0]
IsCommand(e) == e.ev \in {"connect", "disconnect"}
IsPoll(e) == e.ev = "status"
\* the status query ran, exited 0 and its output reports the given state
Observes(e, state) ==
    IsPoll(e) /\ e.inv = Exit0 /\ e.out # 0 /\ StatusOutputs[e.out].reports = state
\* the status query failed the way a CLI failure does
PollCliFailure(e) ==
    IsPoll(e) /\ (e.inv.kind \in {"TimeoutExpired", "OSError"}
                  \/ (e.inv.kind = "exit" /\ e.inv.code # 0))
\* the status query found no executable
PollNotFound(e) == IsPoll(e) /\ e.inv.kind = "missing"
Polls == {i \in 1..Len(log) : IsPoll(log[i])}
Commands == {i \in 1..Len(log) : IsCommand(log[i])}
Ended == pc = "done"
TimedOut == outcome = Raised("NordVpnCliError", "wait timed out")
LinuxCall(name) == platform = "linux" /\ op = name
WindowsCall(name) == platform = "windows" /\ op = name

----------------------------------------------------------------------------
(* C1 *)

\* C1 as stated: on Linux, connect issues the connect command before any status
\* poll; it returns normally only after a status poll made after the command
\* observed Connected; and whenever the command returned exit code 0 and no poll
\* observed Connected, connect fails with the timeout error.
C1_AsStated ==
    LinuxCall("connect") =>
        /\ \A i \in Polls : i > 1 /\ IsCommand(log[1])
        /\ (Ended /\ outcome.kind = "ok") =>
               (Len(log) >= 2 /\ log[1].inv = Exit0 /\ Observes(Last(log), "Connected"))
        /\ (Ended /\ log # <<>> /\ log[1].inv = Exit0
              /\ ~\E i \in Polls : Observes(log[i], "Connected")) => TimedOut

\* C1 (amended): on Linux, connect issues the connect command, once, before any
\* status poll; it returns normally only after a status poll made after the
\* command observed Connected; when the command returned exit code 0 and no poll
\* observed Connected, connect fails: with the timeout error (NordVpnCliError)
\* once the wait timeout has passed, or at once with the ConfigurationError of a
\* status poll that found no executable.
C1_ConnectWaitsForConnected ==
    LinuxCall("connect") =>
        /\ \A i \in Polls : i > 1 /\ IsCommand(log[1])
        /\ Cardinality(Commands) <= 1
        /\ (Ended /\ outcome.kind = "ok") =>
               (Len(log) >= 2 /\ log[1].inv = Exit0 /\ Observes(Last(log), "Connected"))
        /\ (Ended /\ log # <<>> /\ log[1].inv = Exit0
              /\ ~\E i \in Polls : Observes(log[i], "Connected")) =>
               \/ TimedOut /\ ~WaitOpen(now, endTime)
                           /\ ~\E i \in Polls : PollNotFound(log[i])
               \/ outcome.kind = "ConfigurationError" /\ PollNotFound(Last(log))

\* connect timed out although the connect command had exited 0
C1_Witness ==
    /\ LinuxCall("connect") /\ Ended /\ TimedOut
    /\ log[1].inv = Exit0
    /\ \E i \in Polls : Observes(log[i], "Connecting")
    /\ \E i \in Polls : Observes(log[i], "Disconnected")

----------------------------------------------------------------------------
(* C2 *)

\* C2: on Linux, disconnect returns normally only if a status poll made after the
\* disconnect command reported the status Disconnected, whatever status text the
\* CLI prints (a missing status field included).
C2_DisconnectWaitsForDisconnected ==
    (LinuxCall("disconnect") /\ Ended /\ outcome.kind = "ok") =>
        (Len(log) >= 2 /\ IsCommand(log[1]) /\ Observes(Last(log), "Disconnected"))

----------------------------------------------------------------------------
(* C3 *)

\* C3: on Windows, connect and disconnect return normally only after the target
\* state was observed after the command: exit code 0 alone is not enough.
C3_WindowsWaitsForState ==
    ((WindowsCall("connect") \/ WindowsCall("disconnect")) /\ Ended /\ outcome.kind = "ok") =>
        \E i \in Polls :
            /\ \E j \in Commands : j < i
            /\ Observes(log[i], IF op = "connect" THEN "Connected" ELSE "Disconnected")

----------------------------------------------------------------------------
(* C4 *)

\* C4: when the connect or disconnect command itself fails (non-zero exit,
\* timeout, executable not found, on either platform), the call ends at once with
\* that error: the command is issued once and no status poll follows it.
C4_CommandFailureSurfaced ==
    \A i \in Commands :
        log[i].inv # Exit0 =>
            /\ i = Len(log)
            /\ Commands = {i}
            /\ Polls = {}
            /\ Ended
            /\ outcome.kind = log[i].res
            /\ outcome.kind \in {"NordVpnCliError", "ConfigurationError"}

\* a connect or disconnect command failed
C4_Witness ==
    /\ op \in {"connect", "disconnect"} /\ Ended
    /\ log # <<>> /\ IsCommand(Last(log))
    /\ Last(log).inv.kind = "exit" /\ Last(log).inv.code # 0

----------------------------------------------------------------------------
(* C5 *)

\* C5: in _wait_for_status a status query that fails with a CLI error does not
\* end the wait: polling goes on (the only error such a wait ends with is the
\* final timeout, at the deadline), and a later sample that shows the desired
\* state makes the wait succeed.
C5_PollErrorsSwallowed ==
    platform = "linux" =>
        /\ (log # <<>> /\ PollCliFailure(Last(log))) =>
               \/ pc = "wait"
               \/ Ended /\ TimedOut /\ ~WaitOpen(now, endTime)
        /\ (log # <<>>
              /\ Observes(Last(log), IF op = "connect" THEN "Connected" ELSE "Disconnected")) =>
               (Ended /\ outcome.kind = "ok")

\* a wait succeeded after one of its status queries had failed with a CLI error
C5_Witness ==
    /\ platform = "linux" /\ Ended /\ outcome.kind = "ok"
    /\ \E i \in Polls : PollCliFailure(log[i]) /\ i < Len(log)


----------------------------------------------------------------------------
(* C6 *)

\* the polled condition `_is_connected() == connected` is true of what the
\* status query saw
CondHolds(e) ==
    /\ IsPoll(e) /\ e.inv = Exit0 /\ e.out # 0
    /\ (op = "connect") <=> (StatusOutputs[e.out].reports = "Connected")
NumPolls == Cardinality(Polls)
\* time the first k entries of the log took: each evaluation and the sleep after it
RECURSIVE Elapsed(_)
Elapsed(k) ==
    IF k = 0 THEN 0
    ELSE Elapsed(k - 1) + (IF IsPoll(log[k]) THEN log[k].dur + Interval ELSE 0)
\* the wait returns at the first evaluation at which the condition is true
ReturnsAtFirstTrue ==
    /\ (Ended /\ outcome.kind = "ok") =>
           /\ CondHolds(Last(log))
           /\ \A i \in Polls : i < Len(log) => ~CondHolds(log[i])
    /\ \A i \in Polls : CondHolds(log[i]) => (i = Len(log) /\ Ended /\ outcome.kind = "ok")

----------------------------------------------------------------------------
(* C7 *)

\* C7: once a _run_command call has passed the readiness gate, and until a
\* close() call finds a GUI process, no call runs the gate again: no GUI launch
\* and no memory sample is made, and the flag stays set.
C7_GateAtMostOnce ==
    [][passedSinceReset =>
          /\ gateWork' <= gateWork
          /\ pc' # "gate"
          /\ (passedSinceReset' => cliReady')
          /\ (Len(log') > Len(log) => Last(log').ev # "launch")]_vars

\* a command ran to its end without any gate work, in a call made after the one
\* that passed the gate
C7_Witness ==
    /\ platform = "windows" /\ passedSinceReset /\ Ended
    /\ op \in {"connect", "disconnect"}
    /\ gateWork = 0
    /\ log # <<>> /\ IsCommand(Last(log))
    /\ outcome.kind = "ok"

----------------------------------------------------------------------------
(* C8 *)

\* the outcome the Command Runner's contract gives an invocation
Classified(inv) ==
    CASE inv.kind \in {"missing", "shell missing"} -> "ConfigurationError"
      [] inv.kind = "exit" /\ inv.code = 0 -> "ok"
      [] OTHER -> "NordVpnCliError"

\* C8: on both platforms every _run_command invocation has exactly the outcome
\* its classification gives: executable not found -> ConfigurationError; non-zero
\* exit, timeout or any other invocation error -> NordVpnCliError; exit code 0 ->
\* success.  No non-zero exit returns and no exit code 0 raises.  (It fails on
\* Windows, where a missing NordVPN.exe ends as NordVpnCliError.)
C8_RunCommandOutcome ==
    /\ \A i \in Commands \cup Polls : log[i].res = Classified(log[i].inv)
    /\ (Ended /\ log # <<>> /\ IsCommand(Last(log)) /\ ~(platform = "linux" /\ Last(log).inv = Exit0)) =>
           outcome.kind = Classified(Last(log).inv)

----------------------------------------------------------------------------
(* C9 *)

\* matching processes among the first k of the enumeration
MatchingUpTo(k) == {i \in 1..k : i <= Len(procs) /\ Matches(platform, procs[i])}

\* C9: in close(force=False) a process that does not exit within the grace window
\* after terminate is killed exactly once, a process that exits within it is never
\* killed, and each matching process is handled once.
C9_EscalatesOnce ==
    op = "close" =>
        /\ Len(closeLog) <= Cardinality(MatchingUpTo(idx))
        /\ \A i \in 1..Len(closeLog) :
             LET e == closeLog[i] IN
             ~e.force =>
                /\ e.terminates = 1
                /\ (e.first = "ok" /\ e.wait = "TimeoutExpired") => e.kills = 1
                /\ (e.first = "ok" /\ e.wait = "exited") => e.kills = 0

\* a process outlived the grace window of a non-forced close and was killed
C9_Witness ==
    /\ op = "close" /\ ~force /\ Ended /\ outcome.kind = "ok"
    /\ \E i \in 1..Len(closeLog) :
         closeLog[i].wait = "TimeoutExpired" /\ closeLog[i].kills = 1
    /\ \E i \in 1..Len(closeLog) :
         closeLog[i].wait = "exited" /\ closeLog[i].kills = 0

----------------------------------------------------------------------------
(* C10 *)

\* C10: close() does not raise and processes every matching process, whatever
\* fails while closing one of them (terminate, the wait, or the escalated kill).
C10_CloseFailuresIsolated ==
    (op = "close" /\ Ended) =>
        /\ outcome.kind = "ok"
        /\ Len(closeLog) = Cardinality(MatchingUpTo(Len(procs)))
        /\ \A i \in 1..Len(closeLog) :
             (closeLog[i].first = "error" \/ closeLog[i].wait = "error"
                \/ closeLog[i].kill2 = "error") => closeLog[i].report = "failed"

----------------------------------------------------------------------------
(* C11 *)

\* the per-process messages close() can print
PerProcessReports == {"closed", "forcing", "failed"}

\* C11: whenever close() returns, for force=False and for force=True alike, it
\* has reported exactly one outcome (closed, timed out and force-killed, or
\* failed with an OS-level error) for every matching process, and it has printed
\* the no-op message exactly when no process matched.
C11_OneReportPerProcess ==
    (op = "close" /\ Ended /\ outcome.kind = "ok") =>
        /\ Len(closeLog) = Cardinality(MatchingUpTo(Len(procs)))
        /\ \A i \in 1..Len(closeLog) : closeLog[i].report \in PerProcessReports
        /\ (outcome.why = "no-op reported") <=> (MatchingUpTo(Len(procs)) = {})

----------------------------------------------------------------------------
(* C12 *)

\* C12: close(force=True) never requests terminate and issues kill exactly once
\* for each matching process, also for a process that does not exit within the
\* wait.
C12_ForceKillsOnce ==
    (op = "close" /\ force) =>
        /\ Len(closeLog) <= Cardinality(MatchingUpTo(idx))
        /\ Ended => Len(closeLog) = Cardinality(MatchingUpTo(Len(procs)))
        /\ \A i \in 1..Len(closeLog) :
             closeLog[i].terminates = 0 /\ closeLog[i].kills = 1

\* a forced close returned after one of two killed processes outlived the wait
C12_Witness ==
    /\ op = "close" /\ force /\ Ended /\ outcome.kind = "ok"
    /\ Len(closeLog) = 2
    /\ \E i \in 1..Len(closeLog) : closeLog[i].wait = "TimeoutExpired"
    /\ \E i \in 1..Len(closeLog) : closeLog[i].wait = "exited"

----------------------------------------------------------------------------
(* C14 *)

NotReady == Raised("NordVpnCliError", "not ready")
\* the gate ran in this call and declared the client stable
GateDeclared ==
    /\ platform = "windows" /\ gateWork > 0
    /\ pc = "popen" \/ (pc = "done" /\ outcome # NotReady)
\* the gate ran in this call, has sampled the client and has not declared it stable
GateUndeclared ==
    /\ platform = "windows" /\ gateWork > 0 /\ samples # <<>>
    /\ pc = "gate" \/ (pc = "done" /\ outcome = NotReady)

MaxOf(q) == CHOOSE x \in {q[i] : i \in 1..Len(q)} : \A i \in 1..Len(q) : q[i] <= x
MinOf(q) == CHOOSE x \in {q[i] : i \in 1..Len(q)} : \A i \in 1..Len(q) : x <= q[i]
\* the window is full, its latest sample exceeds the threshold, and its largest
\* and its smallest sample are within VariancePct percent of its mean
StabilityCriterion(win) ==
    /\ Len(win) = StabilityWindow
    /\ Last(win) > ThresholdMb
    /\ (MaxOf(win) * StabilityWindow - SumSeq(win)) * 100 <= VariancePct * SumSeq(win)
    /\ (SumSeq(win) - MinOf(win) * StabilityWindow) * 100 <= VariancePct * SumSeq(win)

\* C14 as stated: stability is declared exactly when the window is full, the
\* latest sample exceeds the threshold and the largest deviation from the window
\* mean is within the allowed percentage of the mean; and it is not declared
\* while a sample that entered the window as an outlier is still in the window.
C14_AsStated ==
    /\ GateDeclared => StabilityCriterion(samples)
    /\ GateUndeclared => ~StabilityCriterion(samples)
    /\ GateDeclared => \A i \in 1..Len(entered) : ~entered[i]

\* C14, amended: stability is declared exactly when the window is full, the
\* latest sample exceeds the threshold and the largest deviation from the window
\* mean is within the allowed percentage of the mean. A sample that entered as an
\* outlier can still be in the window when stability is declared; it is then
\* within the allowed percentage of the mean of the window it is in.
C14_StabilityCriterionExact ==
    /\ GateDeclared => StabilityCriterion(samples)
    /\ GateUndeclared => ~StabilityCriterion(samples)
    /\ GateDeclared =>
         \A i \in 1..Len(entered) :
            entered[i] =>
               Abs(samples[i] * StabilityWindow - SumSeq(samples)) * 100
                  <= VariancePct * SumSeq(samples)

\* stability was declared on a window that still holds a sample which had
\* entered as an outlier
C14_Witness ==
    /\ GateDeclared /\ pc = "popen"
    /\ \E i \in 1..Len(entered) : entered[i]

----------------------------------------------------------------------------
(* C15 *)

\* C15: when the gate times out, _run_command fails with the not-ready
\* NordVpnCliError, no CLI command has been issued and the readiness flag is
\* still false; a command entered with the flag false runs the gate; and the
\* Windows controller reaches the spawn of a CLI command only with the flag true.
C15_GateFailureBlocksCommand ==
    [][platform = "windows" =>
        /\ (pc = "gate" /\ pc' = "done") =>
              outcome' = NotReady /\ ~cliReady' /\ Len(log') = Len(log)
                 /\ \A i \in 1..Len(log') : ~IsCommand(log'[i])
        /\ (pc = "run" /\ ~cliReady) => pc' = "gate"
        /\ pc' = "popen" => cliReady'
        /\ Len(log') > Len(log) /\ IsCommand(Last(log')) => cliReady]_vars

\* the gate sampled the client until its timeout and the call failed; no command
\* was issued and the flag is false
C15_Witness ==
    /\ platform = "windows" /\ op \in {"connect", "disconnect"}
    /\ Ended /\ outcome = NotReady
    /\ samples # <<>> /\ now = GateTimeout
    /\ ~cliReady /\ Commands = {}

----------------------------------------------------------------------------
(* C16 *)

FlushRan(e) == e.res # "not found"
\* C16: flush_dns_cache on Linux takes the candidates in the order resolvectl,
\* systemd-resolve, each at most once; a candidate that is not installed is
\* skipped without being run; a successful run ends the call at once, with no
\* later candidate looked at; and the call fails, with a CLI error, exactly when
\* every candidate was unavailable or failed (errored or timed out) when run.
C16_FlushFallbackOrder ==
    op = "flush_dns_cache" =>
        /\ Len(log) <= Len(FlushAttempts)
        /\ \A i \in 1..Len(log) : log[i].ev = FlushAttempts[i]
        /\ \A i \in 1..Len(log) : log[i].res = "ok" => (i = Len(log) /\ Ended)
        /\ Ended =>
             /\ outcome \in {Ok, Raised("NordVpnCliError", "DNS flush failed")}
             /\ outcome = Ok <=> (log # <<>> /\ Last(log).res = "ok")
             /\ outcome # Ok =>
                  /\ Len(log) = Len(FlushAttempts)
                  /\ \A i \in 1..Len(log) :
                       ~FlushRan(log[i])
                         \/ log[i].res \in {"CalledProcessError", "TimeoutExpired", "OSError"}

\* resolvectl is not installed, systemd-resolve is and flushed the cache
C16_Witness ==
    /\ op = "flush_dns_cache" /\ Ended /\ outcome = Ok
    /\ Len(log) = 2
    /\ ~FlushRan(log[1]) /\ log[2].ev = "systemd-resolve" /\ log[2].res = "ok"

----------------------------------------------------------------------------
(* C19 *)

\* the lines of text t, as pairs of the positions of their first and last
\* character (an empty line has last = first - 1)
LineSpans(t) ==
    {sp \in (1..(Len(t) + 1)) \X (0..Len(t)) :
       /\ sp[1] <= Len(t)
       /\ sp[1] <= sp[2] + 1
       /\ sp[1] = 1 \/ t[sp[1] - 1] = "\n"
       /\ sp[2] = Len(t) \/ t[sp[2] + 1] = "\n"
       /\ \A i \in sp[1]..sp[2] : t[i] # "\n"}
ColonSpans(t) == {sp \in LineSpans(t) : \E i \in sp[1]..sp[2] : t[i] = ":"}
ColonAt(t, sp) ==
    CHOOSE i \in sp[1]..sp[2] : t[i] = ":" /\ \A j \in sp[1]..(i - 1) : t[j] # ":"
\* t[a..b] without the blanks at its ends
Trimmed(t, a, b) ==
    LET inner == {i \in a..b : t[i] # " "} IN
    IF inner = {} THEN <<>>
    ELSE SubSeq(t, CHOOSE i \in inner : \A j \in inner : i <= j,
                   CHOOSE i \in inner : \A j \in inner : j <= i)
KeyOf(t, sp) ==
    LET k == Trimmed(t, sp[1], ColonAt(t, sp) - 1) IN
    [i \in 1..Len(k) |-> IF k[i] = "K" THEN "k" ELSE k[i]]
ValueOf(t, sp) == Trimmed(t, ColonAt(t, sp) + 1, sp[2])

\* C19: for every text, the map _parse_status_output returns has exactly the
\* trimmed, lower-cased texts before the first colon of the lines that contain a
\* colon as its keys, and maps each of them to the trimmed text after the first
\* colon of that line (of the last such line, when several lines give the same
\* key); lines without a colon contribute nothing, and the call does not raise.
C19_ParserMapsColonLines ==
    (op = "_parse_status_output" /\ Ended) =>
        LET t == query.text
            d == result.value
        IN  /\ outcome = Ok
            /\ DOMAIN d = {KeyOf(t, sp) : sp \in ColonSpans(t)}
            /\ \A sp \in ColonSpans(t) :
                 (\A later \in ColonSpans(t) :
                     later[1] > sp[1] => KeyOf(t, later) # KeyOf(t, sp))
                   => d[KeyOf(t, sp)] = ValueOf(t, sp)

\* a text with a line without a colon and two lines that give the same key with
\* different values was parsed; the map holds the value of the later line
C19_Witness ==
    /\ op = "_parse_status_output" /\ Ended
    /\ LineSpans(query.text) # ColonSpans(query.text)
    /\ \E a, b \in ColonSpans(query.text) :
         /\ a[1] < b[1]
         /\ KeyOf(query.text, a) = KeyOf(query.text, b)
         /\ ValueOf(query.text, a) # ValueOf(query.text, b)
         /\ result.value[KeyOf(query.text, b)] = ValueOf(query.text, b)

----------------------------------------------------------------------------
(* C20 *)

\* the real value of the first field, in priority order, that carries one
ExpectedField(fields, choice) ==
    IF \E k \in 1..Len(fields) : choice[k] = "real"
    THEN LET k == CHOOSE i \in 1..Len(fields) :
                     choice[i] = "real" /\ \A j \in 1..(i - 1) : choice[j] # "real"
         IN  Value(fields[k].real)
    ELSE NoValue

\* C20: on Linux, get_current_ip and get_connected_server return the value of
\* the first field in priority order (your new ip, current ip, ip; current
\* server, server) that is present, non-empty and not one of the placeholders
\* n/a, none, - in any letter case; a placeholder or an empty value in a field of
\* higher priority does not hide a real value of a lower one; and they return
\* absent only when no field qualifies.
C20_FirstUsableField ==
    (platform = "linux" /\ Ended /\ outcome = Ok) =>
        /\ op = "get_current_ip" => result = ExpectedField(IpFields, query.choice)
        /\ op = "get_connected_server" => result = ExpectedField(ServerFields, query.choice)

\* `Your new IP: N/A` and `Current IP: ` (empty) were printed next to a real
\* `IP`, and get_current_ip returned that one
C20_Witness ==
    /\ platform = "linux" /\ op = "get_current_ip" /\ Ended /\ outcome = Ok
    /\ query.choice = <<"placeholder", "empty", "real">>
    /\ result = Value(IpFields[3].real)

----------------------------------------------------------------------------
(* C13 *)

\* the text get_status owes for what the daemon reports
StatusText(reports) ==
    CASE reports = "Connected" -> StatusConnected
      [] reports = "Disconnected" -> StatusDisconnected
      [] reports = "Connecting" -> <<"C","o","n","n","e","c","t","i","n","g">>
      [] OTHER -> <<"U","n","k","n","o","w","n">>

GetStatusReturned == op = "get_status" /\ Ended /\ outcome = Ok

\* C13 as stated: on both controllers, whatever the CLI printed or the public-IP
\* lookup answered, every value get_status returns is one of Connected,
\* Disconnected and Unknown.
C13_AsStated ==
    GetStatusReturned =>
        result.value \in {StatusConnected, StatusDisconnected, StatusText("Missing")}

\* C13, amended: on Windows get_status returns Connected or Disconnected; on
\* Linux it returns the text of the status field as the CLI printed it,
\* trimmed (Connecting, for one), and Unknown exactly when the output has no
\* status field.
C13_StatusValues ==
    GetStatusReturned =>
        /\ platform = "windows" => result.value \in {StatusConnected, StatusDisconnected}
        /\ platform = "linux" => result.value = StatusText(StatusOutputs[query.out].reports)

\* the Linux get_status returned Unknown for an output without a status field
C13_Witness ==
    /\ GetStatusReturned /\ platform = "linux"
    /\ StatusOutputs[query.out].reports = "Missing"
    /\ result.value = StatusText("Missing")

----------------------------------------------------------------------------
(* C17 *)

\* the canonical text of each address the model's inputs stand for
CanonicalIp == [A |-> <<"1","0",".","0",".","0",".","1">>, B |-> <<":",":","1">>, C |-> <<"1",".","2",".","3",".","4">>,
                D |-> <<"f","e","8","0",":",":","1">>, E |-> <<"8",".","8",".","8",".","8">>]
\* the addresses the stations of a `servers` argument stand for
AddressesOf(list) ==
    IF list = NeverSet THEN {}
    ELSE {ServerChoices[list[i]].ip : i \in 1..Len(list)} \ {"none"}
\* the public IP of the running query is the station of a server of the last
\* set_server_ip_lookup call
PublicIpInTable == query.answer.ip \in AddressesOf(lastServers)
WinQueryReturned(name) == platform = "windows" /\ op = name /\ Ended /\ outcome = Ok

----------------------------------------------------------------------------
(* C18 *)

\* the entry the table owes for address a after set_server_ip_lookup(list): the
\* one built from the last server of the list whose station stands for a
OwedEntry(list, a) ==
    LET i == CHOOSE i \in 1..Len(list) :
                 /\ ServerChoices[list[i]].ip = a
                 /\ \A j \in (i + 1)..Len(list) : ServerChoices[list[j]].ip # a
        sv == ServerChoices[list[i]].server
    IN  [id |-> sv.id, name |-> sv.name, hostname |-> sv.hostname,
         station |-> sv.station, status |-> sv.status]
\* the table is the one built from the servers of the most recent call
TableOfLastCall ==
    /\ DOMAIN serverLookup = {CanonicalIp[a] : a \in AddressesOf(lastServers)}
    /\ \A a \in AddressesOf(lastServers) :
         serverLookup[CanonicalIp[a]] = OwedEntry(lastServers, a)

\* C18: after any sequence of set_server_ip_lookup calls and other operations,
\* the table holds exactly the entries built from the servers of the most recent
\* call whose station normalizes to an IP (one entry per IP, from the last such
\* server; nothing of an earlier call), every key is a canonical IP text, and a
\* step of any other operation leaves the table as it was.
C18_TableReplacedWholesale ==
    [][/\ TableOfLastCall'
       /\ serverLookup' # serverLookup => (pc = "idle" /\ op' = "set_server_ip_lookup")]_vars

\* a set_server_ip_lookup call replaced a table of other keys
C18_Witness ==
    /\ op = "set_server_ip_lookup" /\ Ended
    /\ DOMAIN query.before # {} /\ DOMAIN serverLookup # {}
    /\ DOMAIN query.before \cap DOMAIN serverLookup = {}

----------------------------------------------------------------------------
(* C21 *)

\* C21: a status query of _wait_for_status that raises ConfigurationError (the
\* executable is gone) ends the wait at once with that ConfigurationError: it
\* is the last status query of the call, and no sleep and no wait for the
\* deadline follows it.
C21_ConfigurationErrorEndsWait ==
    (platform = "linux" /\ op \in {"connect", "disconnect"}) =>
        \A i \in Polls :
            PollNotFound(log[i]) =>
               /\ i = Len(log)
               /\ Ended
               /\ outcome = Raised("ConfigurationError", "not found")
               /\ now = Elapsed(Len(log)) - Interval

\* after a status query that saw the other state, the next one found the
\* executable gone and the call ended before the deadline
C21_Witness ==
    /\ platform = "linux" /\ op = "connect" /\ Ended
    /\ NumPolls = 2
    /\ Observes(log[2], "Disconnected")
    /\ PollNotFound(Last(log))
    /\ outcome.kind = "ConfigurationError"
    /\ WaitOpen(now, endTime)

----------------------------------------------------------------------------
(* C22 *)

\* C22: on Windows, when close() has found a NordVPN.exe process the readiness
\* flag is false once close() has ended, whether the process closed, was
\* force-killed or closing it failed; and as long as close() has found no
\* matching process it leaves the flag as it was.
C22_CloseResetsFlag ==
    [][(platform = "windows" /\ op' = "close") =>
          /\ (pc' = "done" /\ found') => ~cliReady'
          /\ ~found' => cliReady' = cliReady]_vars

----------------------------------------------------------------------------
(* C23 *)

\* polling iterations of the gate that have run in this call
IterationsRun == IF GateDeclared THEN now + 1 ELSE now
\* memory samples the gate has taken in this call (gateWork counts the launch too)
SamplesTaken == gateWork - 1

\* C23: the window holds at most stability_window samples, the gate takes one
\* sample per polling iteration (never more samples than iterations have run),
\* and so stability is declared only after at least stability_window polling
\* iterations have run, however many processes named NordVPN.exe there are.
C23_OneSamplePerIteration ==
    (platform = "windows" /\ gateWork > 0) =>
        /\ Len(samples) <= StabilityWindow
        /\ SamplesTaken <= IterationsRun
        /\ GateDeclared => IterationsRun >= StabilityWindow

====
